---- MODULE Spec2Model ----
(***************************************************************************)
(* A model of runall.py: the typed command / reply framework (Cmd,         *)
(* CmdResult, from_dict), the seven relayer commands, and the run() script *)
(* that drives two client lifecycles and one connection handshake through  *)
(* an external relayer process.                                            *)
(*                                                                         *)
(* Python values are modelled as tagged records, [t |-> "str", s |-> "a"]  *)
(* for the string "a": each type keeps its value in a field of its own, so *)
(* values of different Python types are never compared with each other.    *)
(***************************************************************************)
EXTENDS Integers, Sequences, FiniteSets, TLC

VARIABLES
    config,     \* run(c): the configuration path, as its space-separated pieces
    pc,         \* index into the script run of the statement to execute next
    proc,       \* "none" | "running": the subprocess spawned by Cmd.run
    issued,     \* the commands spawned so far: [cmd |-> descriptor, argv |-> tokens]
    env,        \* the local variables of run / connection_handshake
    errors,     \* the l.error diagnostics emitted so far
    sleeps,     \* the number of split() calls made so far
    outcome,    \* "running" | "done" | the name of the exception that ended run
    raised,     \* the exception object that ended run (NoValue while none)
    stdout,     \* the standard output captured from the last subprocess
    returncode, \* the exit status of the last subprocess (0 while none returned)
    fin,        \* input of the function under test (pure-function specifications)
    fout        \* its output

vars == <<config, pc, proc, issued, env, errors, sleeps, outcome, raised, stdout, returncode,
          fin, fout>>

runvars == <<config, pc, proc, issued, env, errors, sleeps, outcome, raised, stdout, returncode>>

-----------------------------------------------------------------------------
(* Bounds of the model. *)

\* number of distinct identifiers the relayer may hand out per kind
NumIds == 2
\* largest revision number / revision height / query height
MaxHeight == 1
\* longest captured standard output, in atoms, of the executor specification
MaxStdoutLen == 4

-----------------------------------------------------------------------------
(* Python / JSON values. *)

Str(s) == [t |-> "str", s |-> s]
Num(n) == [t |-> "int", n |-> n]
List(l) == [t |-> "list", items |-> l]
Dict(f) == [t |-> "dict", map |-> f]
None == [t |-> "null"]
EmptyFcn == [k \in {} |-> None]
EmptyDict == Dict(EmptyFcn)

\* bool(x) of a decoded JSON value
truthy(x) ==
    CASE x.t = "str" -> x.s /= ""
      [] x.t = "int" -> x.n /= 0
      [] x.t = "list" -> Len(x.items) /= 0
      [] x.t = "dict" -> DOMAIN x.map /= {}
      [] OTHER -> FALSE

\* a or b
py_or(a, b) == IF truthy(a) THEN a ELSE b

\* The result of evaluating an expression: a value, or a raised exception.
NoValue == None
Return(x) == [exc |-> "", value |-> x]
Raise(e) == [exc |-> e, value |-> NoValue]

\* d.get(key) on a decoded JSON dict
dict_get(d, key) == IF key \in DOMAIN d.map THEN d.map[key] ELSE None

\* x.get(key) in place of x[key]: None for a missing key
getitem_str_get(x, key) ==
    CASE x.t = "dict" -> IF key \in DOMAIN x.map THEN Return(x.map[key]) ELSE Return(None)
      [] OTHER -> Raise("TypeError")

\* x[key] with a string key
getitem_str(x, key) ==
    CASE x.t = "dict" -> IF key \in DOMAIN x.map THEN Return(x.map[key]) ELSE Raise("KeyError")
      [] OTHER -> Raise("TypeError")

\* x[0]: the first element of a list, the first character of a string
getitem_0(x) ==
    CASE x.t = "list" -> IF Len(x.items) = 0 THEN Raise("IndexError") ELSE Return(x.items[1])
      [] x.t = "dict" -> Raise("KeyError")
      [] x.t = "str" -> IF Len(x.s) = 0 THEN Raise("IndexError")
                        ELSE Return(Str(SubSeq(x.s, 1, 1)))
      [] OTHER -> Raise("TypeError")

\* evaluate F on the value of r unless r raised
Bind(r, F(_)) == IF r.exc /= "" THEN r ELSE F(r.value)

-----------------------------------------------------------------------------
(* Text that the code splits at spaces is modelled as the sequence of its   *)
(* pieces between single spaces: "a b" is <<"a", "b">>, "a " is <<"a", "">>. *)

\* a + b
text_concat(a, b) ==
    SubSeq(a, 1, Len(a) - 1) \o <<a[Len(a)] \o b[1]>> \o SubSeq(b, 2, Len(b))

\* s.split(' ')
split_space(s) == [i \in 1..Len(s) |-> Str(s[i])]

-----------------------------------------------------------------------------
(* from_dict and the result dataclasses. *)

is_dataclass(klass) ==
    klass \in {"Height", "TxCreateClientRes", "TxUpdateClientRes", "QueryClientStateRes",
               "TxConnInitRes", "TxConnTryRes", "TxConnAckRes", "TxConnConfirmRes"}

\* fields(klass): the name and the declared type of each field, in order
datafields(klass) ==
    CASE klass = "Height" ->
            <<[name |-> "revision_height", type |-> "int"],
              [name |-> "revision_number", type |-> "int"]>>
      [] klass = "TxCreateClientRes" -> <<[name |-> "client_id", type |-> "ClientId"]>>
      [] klass = "TxUpdateClientRes" -> <<[name |-> "consensus_height", type |-> "Height"]>>
      [] klass = "QueryClientStateRes" -> <<[name |-> "latest_height", type |-> "Height"]>>
      [] klass \in {"TxConnInitRes", "TxConnTryRes", "TxConnAckRes", "TxConnConfirmRes"} ->
            <<[name |-> "connection_id", type |-> "ConnectionId"]>>

\* An instance of dataclass klass is [t |-> klass, fields |-> its fields by name].
RECURSIVE from_dict(_, _)
from_dict(klass, dikt) ==
    IF is_dataclass(klass)
    THEN LET fields == datafields(klass)
             vals == [i \in 1..Len(fields) |->
                        Bind(getitem_str(dikt, fields[i].name),
                             LAMBDA x : from_dict(fields[i].type, x))]
             failed == {i \in 1..Len(fields) : vals[i].exc /= ""}
             first == CHOOSE i \in failed : \A j \in failed : i <= j
         IN  IF failed /= {}
             THEN Raise(vals[first].exc)
             ELSE Return([t |-> klass,
                          fields |-> [n \in {fields[i].name : i \in 1..Len(fields)} |->
                                   vals[CHOOSE i \in 1..Len(fields) : fields[i].name = n].value]])
    ELSE Return(dikt)

-----------------------------------------------------------------------------
(* The command descriptors: records [class |-> the class, and its fields]. *)

TxCreateClient(dst, src) ==
    [class |-> "TxCreateClient", dst_chain_id |-> dst, src_chain_id |-> src]

TxUpdateClient(dst, src, client_id) ==
    [class |-> "TxUpdateClient", dst_chain_id |-> dst, src_chain_id |-> src,
     dst_client_id |-> client_id]

QueryClientState(chain_id, client_id, height, proof) ==
    [class |-> "QueryClientState", chain_id |-> chain_id, client_id |-> client_id,
     height |-> height, proof |-> proof]

TxConnInit(src, dst, src_client, dst_client) ==
    [class |-> "TxConnInit", src_chain_id |-> src, dst_chain_id |-> dst,
     src_client_id |-> src_client, dst_client_id |-> dst_client]

TxConnTry(src, dst, src_client, dst_client, src_conn) ==
    [class |-> "TxConnTry", src_chain_id |-> src, dst_chain_id |-> dst,
     src_client_id |-> src_client, dst_client_id |-> dst_client, src_conn_id |-> src_conn]

TxConnAck(src, dst, src_client, dst_client, src_conn, dst_conn) ==
    [class |-> "TxConnAck", src_chain_id |-> src, dst_chain_id |-> dst,
     src_client_id |-> src_client, dst_client_id |-> dst_client,
     src_conn_id |-> src_conn, dst_conn_id |-> dst_conn]

TxConnConfirm(src, dst, src_client, dst_client, src_conn, dst_conn) ==
    [class |-> "TxConnConfirm", src_chain_id |-> src, dst_chain_id |-> dst,
     src_client_id |-> src_client, dst_client_id |-> dst_client,
     src_conn_id |-> src_conn, dst_conn_id |-> dst_conn]

\* the operation name set by the @cmd decorator, as its pieces between spaces
name(cmd) ==
    CASE cmd.class = "TxCreateClient" -> <<"tx", "raw", "create-client">>
      [] cmd.class = "TxUpdateClient" -> <<"tx", "raw", "update-client">>
      [] cmd.class = "QueryClientState" -> <<"query", "client", "state">>
      [] cmd.class = "TxConnInit" -> <<"tx", "raw", "conn-init">>
      [] cmd.class = "TxConnTry" -> <<"tx", "raw", "conn-try">>
      [] cmd.class = "TxConnAck" -> <<"tx", "raw", "conn-ack">>
      [] cmd.class = "TxConnConfirm" -> <<"tx", "raw", "conn-confirm">>

\* QueryClientState.args testing the truth of height instead of "is not None"
QueryClientState_args_truthy(cmd) ==
    (IF truthy(cmd.height) THEN <<Str("--height"), Str(ToString(cmd.height.n))>> ELSE <<>>)
    \o (IF cmd.proof THEN <<Str("--proof")>> ELSE <<>>)
    \o <<cmd.chain_id, cmd.client_id>>

\* QueryClientState.args
QueryClientState_args(cmd) ==
    (IF cmd.height /= None THEN <<Str("--height"), Str(ToString(cmd.height.n))>> ELSE <<>>)
    \o (IF cmd.proof THEN <<Str("--proof")>> ELSE <<>>)
    \o <<cmd.chain_id, cmd.client_id>>

\* Cmd.args of each command class
args(cmd) ==
    CASE cmd.class = "TxCreateClient" -> <<cmd.dst_chain_id, cmd.src_chain_id>>
      [] cmd.class = "TxUpdateClient" ->
            <<cmd.dst_chain_id, cmd.src_chain_id, cmd.dst_client_id>>
      [] cmd.class = "QueryClientState" -> QueryClientState_args(cmd)
      [] cmd.class = "TxConnInit" ->
            <<cmd.dst_chain_id, cmd.src_chain_id, cmd.dst_client_id, cmd.src_client_id,
              Str("default-conn"), Str("default-conn")>>
      [] cmd.class = "TxConnTry" ->
            <<cmd.dst_chain_id, cmd.src_chain_id, cmd.dst_client_id, cmd.src_client_id,
              Str("default-conn"), cmd.src_conn_id>>
      [] cmd.class \in {"TxConnAck", "TxConnConfirm"} ->
            <<cmd.dst_chain_id, cmd.src_chain_id, cmd.dst_client_id, cmd.src_client_id,
              cmd.dst_conn_id, cmd.src_conn_id>>

\* the tag process extracts from result[0]; QueryClientState extracts none
tag(cmd) ==
    CASE cmd.class = "TxCreateClient" -> "CreateClient"
      [] cmd.class = "TxUpdateClient" -> "UpdateClient"
      [] cmd.class = "TxConnInit" -> "OpenInitConnection"
      [] cmd.class = "TxConnTry" -> "OpenTryConnection"
      [] cmd.class = "TxConnAck" -> "OpenAckConnection"
      [] cmd.class = "TxConnConfirm" -> "OpenConfirmConnection"
      [] OTHER -> ""

\* the dataclass process builds
res_class(cmd) ==
    CASE cmd.class = "TxCreateClient" -> "TxCreateClientRes"
      [] cmd.class = "TxUpdateClient" -> "TxUpdateClientRes"
      [] cmd.class = "QueryClientState" -> "QueryClientStateRes"
      [] cmd.class = "TxConnInit" -> "TxConnInitRes"
      [] cmd.class = "TxConnTry" -> "TxConnTryRes"
      [] cmd.class = "TxConnAck" -> "TxConnAckRes"
      [] cmd.class = "TxConnConfirm" -> "TxConnConfirmRes"

\* process taking the value under whatever tag result[0] has
process_any_tag(cmd, result) ==
    IF cmd.class = "QueryClientState"
    THEN Bind(getitem_0(result), LAMBDA e : from_dict(res_class(cmd), e))
    ELSE Bind(getitem_0(result),
              LAMBDA e : IF e.t = "dict" /\ Cardinality(DOMAIN e.map) = 1
                         THEN from_dict(res_class(cmd), e.map[CHOOSE k \in DOMAIN e.map : TRUE])
                         ELSE Raise("KeyError"))

\* Cmd.process of each command class
process(cmd, result) ==
    IF cmd.class = "QueryClientState"
    THEN Bind(getitem_0(result), LAMBDA e : from_dict(res_class(cmd), e))
    ELSE Bind(getitem_0(result),
              LAMBDA e : Bind(getitem_str(e, tag(cmd)),
                              LAMBDA d : from_dict(res_class(cmd), d)))

-----------------------------------------------------------------------------
(* CmdResult.success and ExpectedSuccess. *)

ExpectedSuccess(cmd, status, result) ==
    [exc |-> "ExpectedSuccess",
     value |-> [t |-> "ExpectedSuccess",
                args |-> [cmd |-> cmd, status |-> status, result |-> result]]]

\* success() taking a missing status for "success"
success_default_success(cmd, result) ==
    IF result.t /= "dict"
    THEN Raise("AttributeError")
    ELSE LET status == py_or(dict_get(result, "status"), Str("success"))
             payload == py_or(dict_get(result, "result"), EmptyDict)
         IN  IF status = Str("success")
             THEN process(cmd, payload)
             ELSE ExpectedSuccess(cmd, status, payload)

\* success() refusing only the status "error"
success_unless_error(cmd, result) ==
    IF result.t /= "dict"
    THEN Raise("AttributeError")
    ELSE LET status == py_or(dict_get(result, "status"), Str("unknown"))
             payload == py_or(dict_get(result, "result"), EmptyDict)
         IN  IF status /= Str("error")
             THEN process(cmd, payload)
             ELSE ExpectedSuccess(cmd, status, payload)

\* CmdResult(cmd, result).success(); result is the decoded last line
success(cmd, result) ==
    IF result.t /= "dict"
    THEN Raise("AttributeError")
    ELSE LET status == py_or(dict_get(result, "status"), Str("unknown"))
             payload == py_or(dict_get(result, "result"), EmptyDict)
         IN  IF status = Str("success")
             THEN process(cmd, payload)
             ELSE ExpectedSuccess(cmd, status, payload)

-----------------------------------------------------------------------------
(* Cmd.run.  The captured standard output is a sequence of atoms: a line    *)
(* break, a run of text that is not JSON, or the text of one JSON document  *)
(* (held as the value it decodes to).                                       *)

NL == [t |-> "nl"]
Text == [t |-> "text"]
Json(x) == [t |-> "json", doc |-> x]

\* the launcher prefix with the configuration path formatted into it, split at spaces
launcher(c) == split_space(text_concat(<<"cargo", "run", "--bin", "relayer", "--", "-c", "">>, c))

\* full_cmd as Cmd.run builds it
full_cmd(cmd, c) == launcher(c) \o split_space(name(cmd)) \o args(cmd)

\* ' '.join(full_cmd) accepts only strings
join_ok(tokens) == \A i \in 1..Len(tokens) : tokens[i].t = "str"

\* res.stdout.splitlines()
RECURSIVE splitlines(_)
splitlines(s) ==
    IF s = <<>>
    THEN <<>>
    ELSE LET breaks == {i \in 1..Len(s) : s[i] = NL}
             i == CHOOSE k \in breaks : \A j \in breaks : k <= j
         IN  IF breaks = {}
             THEN <<s>>
             ELSE <<SubSeq(s, 1, i - 1)>> \o splitlines(SubSeq(s, i + 1, Len(s)))

\* ''.join(lines[-1:])
last_line(lines) == IF lines = <<>> THEN <<>> ELSE lines[Len(lines)]

\* json.loads(line or '{}')
json_loads_or_empty(line) ==
    IF line = <<>>
    THEN Return(EmptyDict)
    ELSE IF Len(line) = 1 /\ line[1].t = "json"
    THEN Return(line[1].doc)
    ELSE Raise("JSONDecodeError")

\* json.loads(line): the line must hold exactly one JSON document
json_loads(line) ==
    IF Len(line) = 1 /\ line[1].t = "json"
    THEN Return(line[1].doc)
    ELSE Raise("JSONDecodeError")

\* the CompletedProcess subprocess.run returns
CompletedProcess(out, code) == [stdout |-> out, returncode |-> code]

\* Cmd.run refusing a process that exited with a non-zero status
Cmd_run_check(cmd, res) ==
    IF res.returncode /= 0
    THEN Raise("CalledProcessError")
    ELSE Bind(json_loads(last_line(splitlines(res.stdout))),
              LAMBDA j : Return([cmd |-> cmd, result |-> j]))

\* Cmd.run from the return res of subprocess.run: the CmdResult, or the exception
Cmd_run(cmd, res) ==
    Bind(json_loads(last_line(splitlines(res.stdout))),
         LAMBDA j : Return([cmd |-> cmd, result |-> j]))

\* cmd.run(c).success() from the return res of subprocess.run
run_success(cmd, res) == Bind(Cmd_run(cmd, res), LAMBDA cr : success(cr.cmd, cr.result))


-----------------------------------------------------------------------------
(* The script.  Each Python function that issues a command builds its      *)
(* descriptor; create_update_query_client, connection_handshake and run    *)
(* are sequences of statements, executed one at a time at pc.  A statement *)
(* names the local variables it reads; env holds their values.             *)

IBC_0 == Str("ibc-0")
IBC_1 == Str("ibc-1")

create_client(dst, src) == TxCreateClient(dst, src)

\* update_client passing dst and src the other way round
update_client_swapped(dst, src, client_id) == TxUpdateClient(src, dst, client_id)

update_client(dst, src, client_id) == TxUpdateClient(dst, src, client_id)

query_client_state(chain_id, client_id) == QueryClientState(chain_id, client_id, None, FALSE)

conn_init(src, dst, src_client, dst_client) == TxConnInit(src, dst, src_client, dst_client)

conn_try(src, dst, src_client, dst_client, src_conn) ==
    TxConnTry(src, dst, src_client, dst_client, src_conn)

conn_ack(src, dst, src_client, dst_client, src_conn, dst_conn) ==
    TxConnAck(src, dst, src_client, dst_client, src_conn, dst_conn)

conn_confirm(src, dst, src_client, dst_client, src_conn, dst_conn) ==
    TxConnConfirm(src, dst, src_client, dst_client, src_conn, dst_conn)

\* split(): sleep(0.5); print()
split == [op |-> "split"]

\* the statements of create_update_query_client(c, dst, src), whose return
\* value the caller assigns to the variable ret
create_update_query_client(dst, src, ret) ==
    << [op |-> "create_client", dst |-> dst, src |-> src],
       split,
       [op |-> "query_client_state", chain_id |-> dst],
       split,
       [op |-> "update_client", dst |-> dst, src |-> src],
       split,
       [op |-> "query_client_state", chain_id |-> dst],
       split,
       [op |-> "return_client_id", ret |-> ret] >>

\* connection_handshake without the split() between TRY and ACK
connection_handshake_try_ack_no_split(side_a, side_b, client_a, client_b) ==
    << [op |-> "conn_init", src |-> side_a, dst |-> side_b,
        src_client |-> client_a, dst_client |-> client_b],
       split,
       [op |-> "conn_try", src |-> side_b, dst |-> side_a,
        src_client |-> client_b, dst_client |-> client_a, src_conn |-> "a_conn_id"],
       [op |-> "conn_ack", src |-> side_a, dst |-> side_b,
        src_client |-> client_a, dst_client |-> client_b,
        src_conn |-> "b_conn_id", dst_conn |-> "a_conn_id"],
       split,
       [op |-> "conn_confirm", src |-> side_b, dst |-> side_a,
        src_client |-> client_b, dst_client |-> client_a,
        src_conn |-> "a_conn_id", dst_conn |-> "b_conn_id"],
       [op |-> "return_conn_ids"] >>

\* the statements of connection_handshake(c, side_a, side_b, client_a, client_b);
\* client_a and client_b name the caller's variables passed in
connection_handshake(side_a, side_b, client_a, client_b) ==
    << [op |-> "conn_init", src |-> side_a, dst |-> side_b,
        src_client |-> client_a, dst_client |-> client_b],
       split,
       [op |-> "conn_try", src |-> side_b, dst |-> side_a,
        src_client |-> client_b, dst_client |-> client_a, src_conn |-> "a_conn_id"],
       split,
       [op |-> "conn_ack", src |-> side_a, dst |-> side_b,
        src_client |-> client_a, dst_client |-> client_b,
        src_conn |-> "b_conn_id", dst_conn |-> "a_conn_id"],
       split,
       [op |-> "conn_confirm", src |-> side_b, dst |-> side_a,
        src_client |-> client_b, dst_client |-> client_a,
        src_conn |-> "a_conn_id", dst_conn |-> "b_conn_id"],
       [op |-> "return_conn_ids"] >>

\* run building the client of ibc-1 before the client of ibc-0
run_ibc1_first ==
    create_update_query_client(IBC_1, IBC_0, "ibc1_client_id")
    \o create_update_query_client(IBC_0, IBC_1, "ibc0_client_id")
    \o <<split>>
    \o connection_handshake(IBC_1, IBC_0, "ibc1_client_id", "ibc0_client_id")

\* run passing the two client ids to connection_handshake the other way round
run_clients_swapped ==
    create_update_query_client(IBC_0, IBC_1, "ibc0_client_id")
    \o create_update_query_client(IBC_1, IBC_0, "ibc1_client_id")
    \o <<split>>
    \o connection_handshake(IBC_1, IBC_0, "ibc0_client_id", "ibc1_client_id")

\* the statements of run(c)
run ==
    create_update_query_client(IBC_0, IBC_1, "ibc0_client_id")
    \o create_update_query_client(IBC_1, IBC_0, "ibc1_client_id")
    \o <<split>>
    \o connection_handshake(IBC_1, IBC_0, "ibc1_client_id", "ibc0_client_id")

CmdOps == {"create_client", "query_client_state", "update_client",
           "conn_init", "conn_try", "conn_ack", "conn_confirm"}

\* the local variables, unbound (None) until assigned
EnvInit ==
    [client |-> None, ibc0_client_id |-> None, ibc1_client_id |-> None,
     a_conn_id |-> None, b_conn_id |-> None, ack_res |-> None, confirm_res |-> None,
     ibc0_conn_id |-> None, ibc1_conn_id |-> None]

\* the descriptor the statement st builds from the variables e
descriptor(st, e) ==
    CASE st.op = "create_client" -> create_client(st.dst, st.src)
      [] st.op = "query_client_state" ->
            query_client_state(st.chain_id, e.client.fields.client_id)
      [] st.op = "update_client" -> update_client(st.dst, st.src, e.client.fields.client_id)
      [] st.op = "conn_init" ->
            conn_init(st.src, st.dst, e[st.src_client], e[st.dst_client])
      [] st.op = "conn_try" ->
            conn_try(st.src, st.dst, e[st.src_client], e[st.dst_client], e[st.src_conn])
      [] st.op = "conn_ack" ->
            conn_ack(st.src, st.dst, e[st.src_client], e[st.dst_client],
                     e[st.src_conn], e[st.dst_conn])
      [] st.op = "conn_confirm" ->
            conn_confirm(st.src, st.dst, e[st.src_client], e[st.dst_client],
                         e[st.src_conn], e[st.dst_conn])

\* l.error(...) when the connection id a step returns is not the expected one
mismatch(step, expected, got) ==
    IF got /= expected
    THEN <<[step |-> step, expected |-> expected, got |-> got]>>
    ELSE <<>>

\* conn_ack returned res, ending the run when the id is not the expected one
handle_ack_fatal(res, e) ==
    [env |-> [e EXCEPT !.ack_res = res.fields.connection_id],
     errors |-> mismatch("conn ack", e.a_conn_id, res.fields.connection_id),
     exc |-> IF res.fields.connection_id /= e.a_conn_id THEN "InvariantMismatch" ELSE ""]

\* conn_ack returned res, taken as the new a_conn_id
handle_ack_rebinds(res, e) ==
    [env |-> [e EXCEPT !.ack_res = res.fields.connection_id,
                       !.a_conn_id = res.fields.connection_id],
     errors |-> mismatch("conn ack", e.a_conn_id, res.fields.connection_id),
     exc |-> ""]

\* ack_res = conn_ack(...); if ack_res != a_conn_id: l.error(...)
handle_ack(res, e) ==
    [env |-> [e EXCEPT !.ack_res = res.fields.connection_id],
     errors |-> mismatch("conn ack", e.a_conn_id, res.fields.connection_id),
     exc |-> ""]

\* conn_confirm returned res, compared with a_conn_id instead of b_conn_id
handle_confirm_a_conn(res, e) ==
    [env |-> [e EXCEPT !.confirm_res = res.fields.connection_id],
     errors |-> mismatch("conn confirm", e.a_conn_id, res.fields.connection_id),
     exc |-> ""]

\* confirm_res = conn_confirm(...); if confirm_res != b_conn_id: l.error(...)
handle_confirm(res, e) ==
    [env |-> [e EXCEPT !.confirm_res = res.fields.connection_id],
     errors |-> mismatch("conn confirm", e.b_conn_id, res.fields.connection_id),
     exc |-> ""]

\* What the statement st does with res, the value success() returned: the new
\* variables, the diagnostics logged, and the exception raised ("" for none).
handle(st, res, e) ==
    CASE st.op = "create_client" ->
            [env |-> [e EXCEPT !.client = res], errors |-> <<>>, exc |-> ""]
      [] st.op \in {"query_client_state", "update_client"} ->
            [env |-> e, errors |-> <<>>, exc |-> ""]
      [] st.op = "conn_init" ->
            [env |-> [e EXCEPT !.a_conn_id = res.fields.connection_id],
             errors |-> <<>>, exc |-> ""]
      [] st.op = "conn_try" ->
            [env |-> [e EXCEPT !.b_conn_id = res.fields.connection_id],
             errors |-> <<>>, exc |-> ""]
      [] st.op = "conn_ack" -> handle_ack(res, e)
      [] st.op = "conn_confirm" -> handle_confirm(res, e)

-----------------------------------------------------------------------------
(* What the relayer process may print. *)

ClientIds == {Str("07-tendermint-" \o ToString(i)) : i \in 0..(NumIds - 1)}
ConnIds == {Str("connection-" \o ToString(i)) : i \in 0..(NumIds - 1)}
Heights == 0..MaxHeight

HeightJson(rn, rh) == Dict([revision_number |-> Num(rn), revision_height |-> Num(rh)])
HeightJsons == {HeightJson(rn, rh) : rn \in Heights, rh \in Heights}

\* {key: value}
Dict1(key, value) == Dict([k \in {key} |-> value])

\* a height without its revision_height
HalfHeight == Dict1("revision_number", Num(0))

\* the field of the result dataclass of each command class
res_field(class) ==
    CASE class = "TxCreateClient" -> "client_id"
      [] class = "TxUpdateClient" -> "consensus_height"
      [] class = "QueryClientState" -> "latest_height"
      [] OTHER -> "connection_id"

\* the values a relayer may put in that field
res_values(class) ==
    CASE class = "TxCreateClient" -> ClientIds
      [] class \in {"TxUpdateClient", "QueryClientState"} -> HeightJsons
      [] OTHER -> ConnIds

\* the result payload of the reply protocol for a command, carrying value x
payload(cmd, x) ==
    IF cmd.class = "QueryClientState"
    THEN List(<<Dict1(res_field(cmd.class), x)>>)
    ELSE List(<<Dict1(tag(cmd), Dict1(res_field(cmd.class), x))>>)

Reply(status, result) == Dict([status |-> Str(status), result |-> result])

Boom == Dict1("msg", Str("boom"))

\* success replies that follow the reply protocol
GoodReplies(cmd) == {Reply("success", payload(cmd, x)) : x \in res_values(cmd.class)}

\* a payload tagged for another operation
foreign_payload(cmd) ==
    IF cmd.class = "TxCreateClient"
    THEN List(<<Dict1("UpdateClient", Dict1("consensus_height", HeightJson(0, 0)))>>)
    ELSE List(<<Dict1("CreateClient", Dict1("client_id", Str("07-tendermint-0")))>>)

\* replies that do not
BadReplies(cmd) ==
    LET x0 == CHOOSE x \in res_values(cmd.class) : TRUE
    IN  { Reply("error", Boom),
          Reply("error", payload(cmd, x0)),
          Reply("", List(<<>>)),
          Dict1("result", payload(cmd, x0)),
          Dict1("status", Str("success")),
          Reply("success", List(<<>>)),
          Reply("success", foreign_payload(cmd)),
          Reply("success", List(<<Dict1(tag(cmd), EmptyDict)>>)),
          Reply("success", payload(cmd, None)),
          Reply("success", payload(cmd, HalfHeight)),
          List(<<>>) }

\* the standard outputs a relayer process may leave for the command
Stdouts(cmd) ==
    LET g0 == CHOOSE r \in GoodReplies(cmd) : TRUE
    IN  {<<Json(r), NL>> : r \in GoodReplies(cmd) \cup BadReplies(cmd)}
        \cup {<<Text, NL, Json(r), NL>> : r \in GoodReplies(cmd)}
        \cup {<<>>, <<Text, NL>>, <<Json(g0), NL, Text, NL>>, <<Json(g0), NL, NL>>, <<Json(g0)>>}

\* the exit statuses a relayer process may return
ExitCodes == {0, 1}

\* the configuration paths run may be given: "relayer.toml" and "my relayer.toml"
Configs == {<<"relayer.toml">>, <<"my", "relayer.toml">>}

-----------------------------------------------------------------------------
(* The run of the script. *)

Idle == [done |-> FALSE, out |-> None]

RunInit ==
    /\ pc = 1
    /\ proc = "none"
    /\ issued = <<>>
    /\ env = EnvInit
    /\ errors = <<>>
    /\ sleeps = 0
    /\ outcome = "running"
    /\ raised = NoValue
    /\ stdout = <<>>
    /\ returncode = 0

Init ==
    /\ config \in Configs
    /\ RunInit
    /\ fin = None
    /\ fout = Idle

Running == outcome = "running" /\ pc <= Len(run)

\* Cmd.run spawning the process without waiting for the one before to return
Spawn_while_running ==
    /\ Running
    /\ run[pc].op \in CmdOps
    /\ LET cmd == descriptor(run[pc], env)
           tokens == full_cmd(cmd, config)
       IN  IF join_ok(tokens)
           THEN /\ issued' = Append(issued, [cmd |-> cmd, argv |-> tokens])
                /\ proc' = "running"
                /\ UNCHANGED <<outcome, raised>>
           ELSE /\ outcome' = "TypeError"
                /\ raised' = NoValue
                /\ UNCHANGED <<issued, proc>>
    /\ UNCHANGED <<config, pc, env, errors, sleeps, stdout, returncode, fin, fout>>

\* Cmd.run up to subprocess.run: build full_cmd, log it, spawn the process
Spawn ==
    /\ Running
    /\ proc = "none"
    /\ run[pc].op \in CmdOps
    /\ LET cmd == descriptor(run[pc], env)
           tokens == full_cmd(cmd, config)
       IN  IF join_ok(tokens)
           THEN /\ issued' = Append(issued, [cmd |-> cmd, argv |-> tokens])
                /\ proc' = "running"
                /\ UNCHANGED <<outcome, raised>>
           ELSE /\ outcome' = "TypeError"
                /\ raised' = NoValue
                /\ UNCHANGED <<issued, proc>>
    /\ UNCHANGED <<config, pc, env, errors, sleeps, stdout, returncode, fin, fout>>

\* the process returns; a reply whose status is not "success" is not fatal:
\* the statement is left to be executed again
Complete_retry(res) ==
    /\ Running
    /\ proc = "running"
    /\ proc' = "none"
    /\ stdout' = res.stdout
    /\ returncode' = res.returncode
    /\ LET cmd == issued[Len(issued)].cmd
           r == run_success(cmd, res)
           h == handle(run[pc], r.value, env)
       IN  IF r.exc = "ExpectedSuccess"
           THEN UNCHANGED <<outcome, raised, pc, env, errors>>
           ELSE IF r.exc /= ""
           THEN /\ outcome' = r.exc
                /\ raised' = r.value
                /\ UNCHANGED <<pc, env, errors>>
           ELSE /\ env' = h.env
                /\ errors' = errors \o h.errors
                /\ pc' = pc + 1
                /\ UNCHANGED <<outcome, raised>>
    /\ UNCHANGED <<config, issued, sleeps, fin, fout>>

\* the process returns, or subprocess.run gives up waiting for it and raises
Complete_or_timeout(res) ==
    /\ Running
    /\ proc = "running"
    /\ LET cmd == issued[Len(issued)].cmd
           r == run_success(cmd, res)
           h == handle(run[pc], r.value, env)
       IN  \/ /\ outcome' = "TimeoutExpired"
              /\ raised' = NoValue
              /\ UNCHANGED <<proc, stdout, returncode, pc, env, errors>>
           \/ /\ proc' = "none"
              /\ stdout' = res.stdout
              /\ returncode' = res.returncode
              /\ IF r.exc /= ""
                 THEN /\ outcome' = r.exc
                      /\ raised' = r.value
                      /\ UNCHANGED <<pc, env, errors>>
                 ELSE /\ env' = h.env
                      /\ errors' = errors \o h.errors
                      /\ pc' = pc + 1
                      /\ UNCHANGED <<outcome, raised>>
    /\ UNCHANGED <<config, issued, sleeps, fin, fout>>

\* the process returns res (its output and exit status): Cmd.run decodes the last line,
\* success() unwraps it and the statement uses the result
Complete(res) ==
    /\ Running
    /\ proc = "running"
    /\ proc' = "none"
    /\ stdout' = res.stdout
    /\ returncode' = res.returncode
    /\ LET cmd == issued[Len(issued)].cmd
           r == run_success(cmd, res)
           h == handle(run[pc], r.value, env)
       IN  IF r.exc /= ""
           THEN /\ outcome' = r.exc
                /\ raised' = r.value
                /\ UNCHANGED <<pc, env, errors>>
           ELSE IF h.exc /= ""
           THEN /\ outcome' = h.exc
                /\ raised' = NoValue
                /\ UNCHANGED <<pc, env, errors>>
           ELSE /\ env' = h.env
                /\ errors' = errors \o h.errors
                /\ pc' = pc + 1
                /\ UNCHANGED <<outcome, raised>>
    /\ UNCHANGED <<config, issued, sleeps, fin, fout>>

\* split()
Split ==
    /\ Running
    /\ run[pc].op = "split"
    /\ sleeps' = sleeps + 1
    /\ pc' = pc + 1
    /\ UNCHANGED <<config, proc, issued, env, errors, outcome, raised, stdout, returncode, fin, fout>>

\* return client.client_id, assigned by run to ibc0_client_id / ibc1_client_id
ReturnClientId ==
    /\ Running
    /\ run[pc].op = "return_client_id"
    /\ env' = [env EXCEPT ![run[pc].ret] = env.client.fields.client_id]
    /\ pc' = pc + 1
    /\ UNCHANGED <<config, proc, issued, errors, sleeps, outcome, raised, stdout, returncode,
                   fin, fout>>

\* return (a_conn_id, b_conn_id), assigned by run; run then returns
ReturnConnIds ==
    /\ Running
    /\ run[pc].op = "return_conn_ids"
    /\ env' = [env EXCEPT !.ibc0_conn_id = env.a_conn_id, !.ibc1_conn_id = env.b_conn_id]
    /\ pc' = pc + 1
    /\ outcome' = "done"
    /\ UNCHANGED <<config, proc, issued, errors, sleeps, raised, stdout, returncode, fin, fout>>

Next ==
    \/ Spawn
    \/ /\ proc = "running"
       /\ \E out \in Stdouts(issued[Len(issued)].cmd), code \in ExitCodes :
            Complete(CompletedProcess(out, code))
    \/ Split
    \/ ReturnClientId
    \/ ReturnConnIds

Spec == Init /\ [][Next]_vars

\* The statements of the script run to completion on their own: building and
\* spawning a command, split() (a sleep of 0.5 s) and the returns wait for
\* nothing.  subprocess.run waits for the process without a timeout, so the
\* return of a process is left to the relayer: Complete has no fairness.
SpecLive ==
    /\ Init
    /\ [][Next]_vars
    /\ WF_vars(Spawn)
    /\ WF_vars(Split)
    /\ WF_vars(ReturnClientId)
    /\ WF_vars(ReturnConnIds)


-----------------------------------------------------------------------------
(* Specifications of the pure functions: Init draws the input, one action  *)
(* applies the function, the script stays where it starts.                 *)

Apply(out) ==
    /\ fout.done = FALSE
    /\ fout' = [done |-> TRUE, out |-> out]
    /\ UNCHANGED <<runvars, fin>>

FnInit(inputs) ==
    /\ config = <<"relayer.toml">>
    /\ RunInit
    /\ fin \in inputs
    /\ fout = Idle

\* one descriptor of each command class
SampleCmds ==
    LET cl == Str("07-tendermint-0")
        co == Str("connection-0")
    IN  { create_client(IBC_0, IBC_1),
          update_client(IBC_0, IBC_1, cl),
          query_client_state(IBC_0, cl),
          conn_init(IBC_1, IBC_0, cl, cl),
          conn_try(IBC_0, IBC_1, cl, cl, co),
          conn_ack(IBC_1, IBC_0, cl, cl, co, co),
          conn_confirm(IBC_0, IBC_1, cl, cl, co, co) }

\* a field that may be absent: <<>> or <<its value>>
Opt(S) == {<<>>} \cup {<<x>> : x \in S}

\* the reply object with the fields given
ReplyObject(status, result) ==
    Dict([k \in (IF status = <<>> THEN {} ELSE {"status"})
                \cup (IF result = <<>> THEN {} ELSE {"result"}) |->
            IF k = "status" THEN status[1] ELSE result[1]])

Statuses == {Str("success"), Str("error"), Str("unknown"), Str(""), None}

Payloads(cmd) ==
    {payload(cmd, x) : x \in res_values(cmd.class)}
    \cup {foreign_payload(cmd), Boom, EmptyDict, List(<<>>), Str("boom"), Str(""),
          Num(1), Num(0), None}

\* the CmdResult objects success() is applied to
CmdResults ==
    UNION {{[cmd |-> c, result |-> ReplyObject(st, p)] :
              st \in Opt(Statuses), p \in Opt(Payloads(c))} : c \in SampleCmds}
    \cup {[cmd |-> c, result |-> List(<<>>)] : c \in SampleCmds}

InitUnwrap == FnInit(CmdResults)

\* CmdResult.success()
Unwrap == Apply(success(fin.cmd, fin.result))

SpecUnwrap == InitUnwrap /\ [][Unwrap]_vars

\* sequences over S of length at most n
RECURSIVE SeqsUpTo(_, _)
SeqsUpTo(S, n) ==
    IF n = 0
    THEN {<<>>}
    ELSE LET shorter == SeqsUpTo(S, n - 1)
         IN  shorter \cup {Append(q, x) : q \in shorter, x \in S}

JsonA == Json(Reply("success", payload(create_client(IBC_0, IBC_1), Str("07-tendermint-0"))))
JsonB == Json(Reply("error", Boom))

\* the captured standard outputs Cmd.run is applied to
CapturedStdouts == SeqsUpTo({NL, Text, JsonA, JsonB}, MaxStdoutLen)

InitExec == FnInit(CapturedStdouts)

\* Cmd.run after the subprocess returned: the line selected and what run returns
Decode ==
    Apply([line |-> last_line(splitlines(fin)),
           ret |-> Cmd_run(create_client(IBC_0, IBC_1), CompletedProcess(fin, 0))])

SpecExec == InitExec /\ [][Decode]_vars

\* the descriptors args() is applied to
Descriptors ==
    LET chains == {IBC_0, IBC_1}
    IN  {create_client(d, s) : d \in chains, s \in chains}
        \cup {update_client(d, s, c) : d \in chains, s \in chains, c \in ClientIds}
        \cup {QueryClientState(d, c, h, p) :
                d \in chains, c \in ClientIds,
                h \in {None} \cup {Num(n) : n \in Heights}, p \in BOOLEAN}
        \cup {conn_init(s, d, sc, dc) :
                s \in chains, d \in chains, sc \in ClientIds, dc \in ClientIds}
        \cup {conn_try(s, d, sc, dc, sn) :
                s \in chains, d \in chains, sc \in ClientIds, dc \in ClientIds,
                sn \in ConnIds}
        \cup {conn_ack(s, d, sc, dc, sn, dn) :
                s \in {IBC_1}, d \in {IBC_0}, sc \in ClientIds, dc \in ClientIds,
                sn \in ConnIds, dn \in ConnIds}
        \cup {conn_confirm(s, d, sc, dc, sn, dn) :
                s \in {IBC_0}, d \in {IBC_1}, sc \in ClientIds, dc \in ClientIds,
                sn \in ConnIds, dn \in ConnIds}

InitArgs == FnInit(Descriptors)

\* Cmd.args()
Render == Apply(args(fin))

SpecArgs == InitArgs /\ [][Render]_vars

\* the first element of the result array of the reply protocol
element(cmd, x) == payload(cmd, x).items[1]

\* the result payloads process is applied to: for each command, the payload of
\* every command (its own included), alone, followed by a second element, and
\* behind an element of another command; and payloads that are no such array
InterpretInputs ==
    UNION {{[cmd |-> c, result |-> p] :
              p \in UNION {{ List(<<element(c2, x)>>),
                             List(<<element(c2, x), Boom>>),
                             List(<<element(c2, x), element(c, CHOOSE y \in res_values(c.class) : TRUE)>>) } :
                           x \in res_values(c2.class) \cup {HalfHeight}}
           } : c \in SampleCmds, c2 \in SampleCmds}
    \cup {[cmd |-> c, result |-> p] : c \in SampleCmds, p \in {List(<<>>), EmptyDict, Boom, None}}

InitInterpret == FnInit(InterpretInputs)

\* Cmd.process(result)
Interpret == Apply(process(fin.cmd, fin.result))

SpecInterpret == InitInterpret /\ [][Interpret]_vars


-----------------------------------------------------------------------------
(* Properties of CmdResult.success (SpecUnwrap). *)

HasKey(d, key) == d.t = "dict" /\ key \in DOMAIN d.map

\* C6: for every reply object with a status string and a result, success()
\* returns process(result) when the status is "success", and otherwise raises
\* ExpectedSuccess carrying exactly the status and the result of the reply,
\* falsy ones ("", [], 0) included.
C6_UnwrapExact ==
    (fout.done /\ HasKey(fin.result, "status") /\ HasKey(fin.result, "result")
        /\ fin.result.map.status.t = "str")
    => IF fin.result.map.status = Str("success")
       THEN fout.out = process(fin.cmd, fin.result.map.result)
       ELSE fout.out = ExpectedSuccess(fin.cmd, fin.result.map.status, fin.result.map.result)

\* C7: a reply object without a status field is never a success: success()
\* raises ExpectedSuccess with status "unknown" and process is not called,
\* whatever the result; a reply without a result field is unwrapped with the
\* empty dict as its result.
C7_MissingFields ==
    (fout.done /\ fin.result.t = "dict")
    => /\ ~HasKey(fin.result, "status")
          => /\ fout.out.exc = "ExpectedSuccess"
             /\ fout.out.value.args.status = Str("unknown")
       /\ ~HasKey(fin.result, "result")
          => IF fout.out.exc = "ExpectedSuccess"
             THEN fout.out.value.args.result = EmptyDict
             ELSE /\ HasKey(fin.result, "status")
                  /\ fin.result.map.status = Str("success")
                  /\ fout.out = process(fin.cmd, EmptyDict)

\* a reply without status whose result process would accept was refused
C7_Witness ==
    /\ fout.done
    /\ fin.result.t = "dict"
    /\ ~HasKey(fin.result, "status")
    /\ HasKey(fin.result, "result")
    /\ process(fin.cmd, fin.result.map.result).exc = ""
    /\ fout.out.exc = "ExpectedSuccess"

-----------------------------------------------------------------------------
(* Properties of Cmd.run's line selection (SpecExec). *)

\* s[i..j] is a non-empty line of s
IsLine(s, i, j) ==
    /\ i <= j
    /\ \A k \in i..j : s[k] /= NL
    /\ i = 1 \/ s[i - 1] = NL
    /\ j = Len(s) \/ s[j + 1] = NL

\* the last non-empty line of s, empty when it has none
LastNonEmptyLine(s) ==
    LET lines == {ij \in (1..Len(s)) \X (1..Len(s)) : IsLine(s, ij[1], ij[2])}
        last == CHOOSE ij \in lines : \A other \in lines : other[1] <= ij[1]
    IN  IF lines = {} THEN <<>> ELSE SubSeq(s, last[1], last[2])

\* the line holds exactly one JSON document
IsJsonDocument(line) == Len(line) = 1 /\ line[1].t = "json"

\* C8: for every captured standard output, Cmd.run decodes the last non-empty
\* line: lines before it are ignored and empty lines after it do not change
\* which line is decoded, so run returns the document of that line, and fails
\* to decode only when that line is not a JSON document.
C8_LastNonEmptyLine ==
    fout.done =>
        LET line == LastNonEmptyLine(fin)
        IN  /\ fout.out.line = line
            /\ fout.out.ret = IF IsJsonDocument(line)
                              THEN Return([cmd |-> create_client(IBC_0, IBC_1),
                                           result |-> line[1].doc])
                              ELSE Raise("JSONDecodeError")

-----------------------------------------------------------------------------
(* Properties of Cmd.args (SpecArgs). *)

Has(tokens, tok) == \E i \in 1..Len(tokens) : tokens[i] = tok

\* the values of the fields of a descriptor other than QueryClientState
FieldValues(d) == {d[f] : f \in DOMAIN d \ {"class"}}

\* C10: args() of query-client-state emits '--height <h>' iff height is not
\* None (height 0 included) and a bare '--proof' iff proof is true, both before
\* the positional tokens chain_id, client_id, and never an empty token or a
\* '--height' without its value; the other six commands emit only positional
\* tokens: dst chain, src chain, then one token per remaining parameter.
C10_RenderParameters ==
    fout.done =>
        LET d == fin
            tk == fout.out
            n == Len(tk)
        IN  /\ \A i \in 1..n : tk[i].t = "str" /\ tk[i] /= Str("")
            /\ IF d.class = "QueryClientState"
               THEN /\ Has(tk, Str("--height")) <=> d.height /= None
                    /\ d.height /= None
                       => tk[1] = Str("--height") /\ tk[2] = Str(ToString(d.height.n))
                    /\ Has(tk, Str("--proof")) <=> d.proof
                    /\ n = 2 + (IF d.height /= None THEN 2 ELSE 0) + (IF d.proof THEN 1 ELSE 0)
                    /\ tk[n - 1] = d.chain_id
                    /\ tk[n] = d.client_id
                    /\ \A i \in 1..n : tk[i] = Str("--proof") => i = n - 2
               ELSE /\ ~Has(tk, Str("--height")) /\ ~Has(tk, Str("--proof"))
                    /\ tk[1] = d.dst_chain_id
                    /\ tk[2] = d.src_chain_id
                    /\ n = CASE d.class = "TxCreateClient" -> 2
                             [] d.class = "TxUpdateClient" -> 3
                             [] OTHER -> 6
                    /\ \A i \in 1..n : tk[i] \in FieldValues(d) \cup {Str("default-conn")}

\* query-client-state at height 0 with proof rendered both flags
C10_Witness ==
    /\ fout.done
    /\ fin.class = "QueryClientState"
    /\ fin.height = Num(0)
    /\ fin.proof
    /\ fout.out = <<Str("--height"), Str("0"), Str("--proof"), fin.chain_id, fin.client_id>>

-----------------------------------------------------------------------------
(* Properties of Cmd.process (SpecInterpret). *)

\* the object is a height with both of its fields
IsHeightJson(x) ==
    HasKey(x, "revision_number") /\ HasKey(x, "revision_height")

\* the typed result of the reply table for cmd whose field holds x
Typed(cmd, x) ==
    [t |-> res_class(cmd),
     fields |-> [f \in {res_field(cmd.class)} |->
                   IF cmd.class \in {"TxUpdateClient", "QueryClientState"}
                   THEN [t |-> "Height",
                         fields |-> [revision_number |-> x.map.revision_number,
                                     revision_height |-> x.map.revision_height]]
                   ELSE x]]

\* the tag of the reply table under which the element e holds its fields
\* ("" for a flat element), when e is such an element
TagOf(e) ==
    IF e.t = "dict" /\ Cardinality(DOMAIN e.map) = 1
    THEN LET k == CHOOSE k \in DOMAIN e.map : TRUE
         IN  IF k \in {"CreateClient", "UpdateClient", "OpenInitConnection",
                       "OpenTryConnection", "OpenAckConnection", "OpenConfirmConnection"}
             THEN k
             ELSE IF k = "latest_height" THEN "" ELSE "?"
    ELSE "?"

\* C11: process reads only the first element of the result array; when that
\* element carries the tag of the command (none for query client state) with
\* the tabled field, process returns the typed result holding exactly that
\* field, a height rebuilt from revision_number and revision_height by name;
\* when it carries the tag of another operation process returns no result.
C11_Interpret ==
    (fout.done /\ fin.result.t = "list" /\ Len(fin.result.items) > 0)
    => LET e == fin.result.items[1]
           c == fin.cmd
           x == IF tag(c) = "" THEN e.map[res_field(c.class)]
                ELSE e.map[tag(c)].map[res_field(c.class)]
           heighted == c.class \in {"TxUpdateClient", "QueryClientState"}
       IN  /\ fout.out = process(c, List(<<e>>))
           /\ (TagOf(e) = tag(c) /\ (heighted => IsHeightJson(x)))
              => fout.out = Return(Typed(c, x))
           /\ (TagOf(e) \notin {tag(c), "?"}) => fout.out.exc /= ""

\* update-client rebuilt the height 1-0 from a payload followed by a second element
C11_Witness ==
    /\ fout.done
    /\ fin.cmd.class = "TxUpdateClient"
    /\ fin.result.t = "list"
    /\ Len(fin.result.items) = 2
    /\ fout.out.exc = ""
    /\ fout.out.value.fields.consensus_height.fields.revision_number = Num(1)
    /\ fout.out.value.fields.consensus_height.fields.revision_height = Num(0)

-----------------------------------------------------------------------------
(* Properties of the run (Spec). *)

\* the step taken is the return of the subprocess of the command at pc
Completed == proc = "running" /\ proc' = "none"

\* the command whose subprocess ran last
LastCmd == issued[Len(issued)].cmd

\* the line Cmd.run selects from a standard output
Selected(out) == last_line(splitlines(out))

\* the reply out carries follows the reply protocol for cmd with value x
Carries(out, cmd, x) ==
    /\ IsJsonDocument(Selected(out))
    /\ Selected(out)[1].doc = Reply("success", payload(cmd, x))

\* the values a success reply may carry in the field, well-typed or not
Carried(cmd) == res_values(cmd.class) \cup {None, HalfHeight}

\* class and chain identifiers of a command
Shape(cmd) ==
    CASE cmd.class \in {"TxCreateClient", "TxUpdateClient"} ->
            <<cmd.class, cmd.dst_chain_id, cmd.src_chain_id>>
      [] cmd.class = "QueryClientState" -> <<cmd.class, cmd.chain_id>>
      [] OTHER -> <<cmd.class>>

FixedOrder ==
    << <<"TxCreateClient", IBC_0, IBC_1>>, <<"QueryClientState", IBC_0>>,
       <<"TxUpdateClient", IBC_0, IBC_1>>, <<"QueryClientState", IBC_0>>,
       <<"TxCreateClient", IBC_1, IBC_0>>, <<"QueryClientState", IBC_1>>,
       <<"TxUpdateClient", IBC_1, IBC_0>>, <<"QueryClientState", IBC_1>>,
       <<"TxConnInit">>, <<"TxConnTry">>, <<"TxConnAck">>, <<"TxConnConfirm">> >>

\* C1: when every reply is a success that follows the reply protocol, run
\* issues exactly 12 commands in the fixed order CREATE, QUERY, UPDATE, QUERY
\* for (ibc-0, ibc-1), the same for (ibc-1, ibc-0), then INIT, TRY, ACK,
\* CONFIRM, whatever identifiers and heights the replies carry: the commands
\* issued are always a prefix of that order, a finished run has issued all 12,
\* and a run only ends early on a reply that is not such a success.
C1_FixedOrder ==
    /\ Len(issued) <= Len(FixedOrder)
    /\ \A i \in 1..Len(issued) : Shape(issued[i].cmd) = FixedOrder[i]
    /\ outcome = "done" => Len(issued) = Len(FixedOrder)
    /\ outcome \notin {"running", "done"}
       => \A x \in res_values(LastCmd.class) : ~Carries(stdout, LastCmd, x)

\* a run whose replies all agreed finished after 12 commands
C1_Witness ==
    /\ outcome = "done"
    /\ Len(issued) = 12
    /\ errors = <<>>
    /\ env.ibc0_client_id /= env.ibc1_client_id

\* the number of command statements among the first n statements of run
RECURSIVE CmdsUpTo(_)
CmdsUpTo(n) ==
    IF n = 0 THEN 0 ELSE CmdsUpTo(n - 1) + (IF run[n].op \in CmdOps THEN 1 ELSE 0)

\* C2: at each of the 12 steps, a reply whose status is not "success" makes
\* the run raise ExpectedSuccess at that step, and nothing happens afterwards:
\* no further command is issued.
C2_FailureStatusAborts ==
    /\ [](outcome = "ExpectedSuccess"
            => /\ ~ENABLED Next
               /\ run[pc].op \in CmdOps
               /\ Len(issued) = CmdsUpTo(pc))
    /\ [][(/\ Completed
           /\ IsJsonDocument(Selected(stdout'))
           /\ HasKey(Selected(stdout')[1].doc, "status")
           /\ Selected(stdout')[1].doc.map.status /= Str("success"))
          => (outcome' = "ExpectedSuccess" /\ pc' = pc /\ issued' = issued)]_vars

\* the CONFIRM step, the last of the 12, failed with status "error"
C2_Witness ==
    /\ outcome = "ExpectedSuccess"
    /\ Len(issued) = 12
    /\ raised.args.status = Str("error")
    /\ raised.args.cmd.class = "TxConnConfirm"

\* C3: a connection id mismatch is never fatal: after an ACK success reply
\* whose id differs from a_conn_id the run goes on to the CONFIRM command, which
\* can then be issued; after a CONFIRM success reply whose id differs from
\* b_conn_id connection_handshake goes on to its return statement.
C3_MismatchNotFatal ==
    /\ [][Completed => \A x \in Carried(LastCmd) :
            Carries(stdout', LastCmd, x)
            => /\ (LastCmd.class = "TxConnAck" /\ x /= env.a_conn_id)
                  => /\ outcome' = "running"
                     /\ run[pc'] = split
                     /\ run[pc' + 1].op = "conn_confirm"
               /\ (LastCmd.class = "TxConnConfirm" /\ x /= env.b_conn_id)
                  => /\ outcome' = "running"
                     /\ run[pc'].op = "return_conn_ids"]_vars
    /\ []((outcome = "running" /\ pc <= Len(run) /\ proc = "none"
             /\ run[pc].op = "conn_confirm")
          => ENABLED (Spawn /\ Len(issued') = Len(issued) + 1))

\* both ACK and CONFIRM returned an unexpected id and the run still finished
C3_Witness ==
    /\ outcome = "done"
    /\ Len(issued) = 12
    /\ Len(errors) = 2
    /\ env.ack_res /= env.a_conn_id
    /\ env.confirm_res /= env.b_conn_id

\* C4: a diagnostic is logged for every deviation and only for deviations:
\* a_conn_id and b_conn_id are the ids the INIT and TRY replies carried; an ACK
\* success reply logs one error iff its id differs from a_conn_id, a CONFIRM
\* success reply logs one error iff its id differs from b_conn_id, and no other
\* step logs an error.
C4_ReportsExactlyDeviations ==
    [][/\ Completed => \A x \in Carried(LastCmd) :
            Carries(stdout', LastCmd, x)
            => /\ LastCmd.class = "TxConnInit" => env'.a_conn_id = x
               /\ LastCmd.class = "TxConnTry" => env'.b_conn_id = x
               /\ LastCmd.class = "TxConnAck"
                  => /\ x /= env.a_conn_id => Len(errors') = Len(errors) + 1
                     /\ x = env.a_conn_id => errors' = errors
               /\ LastCmd.class = "TxConnConfirm"
                  => /\ x /= env.b_conn_id => Len(errors') = Len(errors) + 1
                     /\ x = env.b_conn_id => errors' = errors
       /\ errors' /= errors
          => /\ Completed
             /\ LastCmd.class \in {"TxConnAck", "TxConnConfirm"}
             /\ errors' = Append(errors, errors'[Len(errors')])
       /\ (env'.a_conn_id /= env.a_conn_id) => (Completed /\ LastCmd.class = "TxConnInit")
       /\ (env'.b_conn_id /= env.b_conn_id) => (Completed /\ LastCmd.class = "TxConnTry")]_vars

\* ACK echoed a_conn_id and logged nothing; CONFIRM did not echo b_conn_id and
\* logged the one error
C4_Witness ==
    /\ outcome = "done"
    /\ env.ack_res = env.a_conn_id
    /\ env.confirm_res /= env.b_conn_id
    /\ env.a_conn_id /= env.b_conn_id
    /\ errors = <<[step |-> "conn confirm", expected |-> env.b_conn_id, got |-> env.confirm_res]>>

\* the k-th command of a client lifecycle for (dst, src) whose CREATE returned id
LifecycleCmd(k, dst, src, id) ==
    CASE k = 1 -> [class |-> "TxCreateClient", dst_chain_id |-> dst, src_chain_id |-> src]
      [] k = 3 -> [class |-> "TxUpdateClient", dst_chain_id |-> dst, src_chain_id |-> src,
                   dst_client_id |-> id]
      [] OTHER -> [class |-> "QueryClientState", chain_id |-> dst, client_id |-> id,
                   height |-> None, proof |-> FALSE]

\* its parameter tokens
LifecycleTokens(k, dst, src, id) ==
    CASE k = 1 -> <<dst, src>>
      [] k = 3 -> <<dst, src, id>>
      [] OTHER -> <<dst, id>>

\* the last n elements of s
Suffix(s, n) == SubSeq(s, Len(s) - n + 1, Len(s))

\* C5: a client lifecycle issues exactly the 4 commands CREATE(dst, src),
\* QUERY(dst, id), UPDATE(dst, src, id), QUERY(dst, id), where id is the client
\* id the CREATE reply carried, and returns that id; no height is an input of a
\* command.
C5_ClientLifecycle ==
    [][/\ env'.client /= env.client
          => /\ Completed
             /\ LastCmd.class = "TxCreateClient"
             /\ Carries(stdout', LastCmd, env'.client.fields.client_id)
       /\ (issued' /= issued /\ Len(issued) < 8)
          => LET n == Len(issued) + 1
                 k == ((n - 1) % 4) + 1
                 dst == IF n <= 4 THEN IBC_0 ELSE IBC_1
                 src == IF n <= 4 THEN IBC_1 ELSE IBC_0
                 id == IF k = 1 THEN None ELSE env.client.fields.client_id
             IN  /\ Len(issued') = n
                 /\ SubSeq(issued', 1, n - 1) = issued
                 /\ issued'[n].cmd = LifecycleCmd(k, dst, src, id)
                 /\ LET tk == LifecycleTokens(k, dst, src, id)
                    IN  Suffix(issued'[n].argv, Len(tk)) = tk
       /\ env'.ibc0_client_id /= env.ibc0_client_id
          => Len(issued) = 4 /\ env'.ibc0_client_id = env.client.fields.client_id
       /\ env'.ibc1_client_id /= env.ibc1_client_id
          => Len(issued) = 8 /\ env'.ibc1_client_id = env.client.fields.client_id]_vars

\* both lifecycles returned, with different client ids, after 8 commands
C5_Witness ==
    /\ outcome = "running"
    /\ Len(issued) = 8
    /\ env.ibc0_client_id \in ClientIds
    /\ env.ibc1_client_id \in ClientIds
    /\ env.ibc0_client_id /= env.ibc1_client_id
    /\ issued[7].cmd = LifecycleCmd(3, IBC_1, IBC_0, env.ibc1_client_id)

\* the text whose pieces between single spaces are s
RECURSIVE JoinSpace(_)
JoinSpace(s) ==
    IF Len(s) = 1 THEN s[1] ELSE s[1] \o " " \o JoinSpace(Tail(s))

\* C12: the token sequence passed to the subprocess of every command is the
\* launcher prefix cargo run --bin relayer -- -c, then the configuration path
\* as one token (also when the path contains a space), then the tokens of the
\* operation name, then args(), in that order.
C12_TokenSequence ==
    \A i \in 1..Len(issued) :
        issued[i].argv =
            <<Str("cargo"), Str("run"), Str("--bin"), Str("relayer"), Str("--"), Str("-c")>>
            \o <<Str(JoinSpace(config))>>
            \o [k \in 1..Len(name(issued[i].cmd)) |-> Str(name(issued[i].cmd)[k])]
            \o args(issued[i].cmd)

\* C13 as stated: every command that returned a result, CONFIRM included, is
\* followed by a delay: the statement after it is split().
C13_DelayAfterEveryStep ==
    [][(Completed /\ outcome' = "running") => run[pc'] = split]_vars

\* C13 as amended: each of the 8 client-lifecycle commands and each of INIT,
\* TRY and ACK is followed by split() before anything else happens, so at
\* least one delay lies between any two commands (two between the last QUERY
\* and INIT); CONFIRM is followed by no delay, connection_handshake returns
\* right after it; a delay never overlaps a running process.
C13_DelayBetweenCommands ==
    /\ [][/\ (Completed /\ outcome' = "running")
             => IF LastCmd.class = "TxConnConfirm"
                THEN run[pc'].op = "return_conn_ids"
                ELSE run[pc'] = split
          /\ issued' /= issued
             => sleeps = Len(issued) + (IF Len(issued) >= 8 THEN 1 ELSE 0)
          /\ sleeps' /= sleeps
             => (proc = "none" /\ sleeps' = sleeps + 1 /\ issued' = issued)]_vars
    /\ [](outcome = "done" => sleeps = 12)

\* a finished run: 12 commands and 12 delays, none of them after CONFIRM
C13_Witness ==
    /\ outcome = "done"
    /\ Len(issued) = 12
    /\ sleeps = 12
    /\ run[pc - 1].op = "return_conn_ids"
    /\ run[pc - 2].op = "conn_confirm"

\* C14: connection ids are only threaded forward.  a_conn_id is bound once, to
\* the id the INIT reply carried, and b_conn_id once, to the id the TRY reply
\* carried; the replies of ACK and CONFIRM change neither, whatever id they
\* echo.  TRY is issued with a_conn_id as its src connection, ACK with
\* (src b_conn_id, dst a_conn_id), CONFIRM with (src a_conn_id, dst b_conn_id),
\* rendered as the last two tokens dst, src; the handshake returns
\* (a_conn_id, b_conn_id).
C14_ConnIdsThreaded ==
    /\ [][/\ env'.a_conn_id /= env.a_conn_id
             => /\ Completed /\ LastCmd.class = "TxConnInit"
                /\ env.a_conn_id = None
                /\ Carries(stdout', LastCmd, env'.a_conn_id)
          /\ env'.b_conn_id /= env.b_conn_id
             => /\ Completed /\ LastCmd.class = "TxConnTry"
                /\ env.b_conn_id = None
                /\ Carries(stdout', LastCmd, env'.b_conn_id)]_vars
    /\ [](/\ Len(issued) >= 10
             => /\ issued[10].cmd.src_conn_id = env.a_conn_id
                /\ Suffix(issued[10].argv, 2) = <<Str("default-conn"), env.a_conn_id>>
          /\ Len(issued) >= 11
             => /\ issued[11].cmd.src_conn_id = env.b_conn_id
                /\ issued[11].cmd.dst_conn_id = env.a_conn_id
                /\ Suffix(issued[11].argv, 2) = <<env.a_conn_id, env.b_conn_id>>
          /\ Len(issued) >= 12
             => /\ issued[12].cmd.src_conn_id = env.a_conn_id
                /\ issued[12].cmd.dst_conn_id = env.b_conn_id
                /\ Suffix(issued[12].argv, 2) = <<env.b_conn_id, env.a_conn_id>>
          /\ outcome = "done"
             => env.ibc0_conn_id = env.a_conn_id /\ env.ibc1_conn_id = env.b_conn_id)

\* ACK echoed b_conn_id and CONFIRM echoed a_conn_id; CONFIRM was still issued
\* with, and the handshake returned, the ids of INIT and TRY
C14_Witness ==
    /\ outcome = "done"
    /\ env.a_conn_id /= env.b_conn_id
    /\ env.ack_res = env.b_conn_id
    /\ env.confirm_res = env.a_conn_id
    /\ issued[12].cmd.src_conn_id = env.a_conn_id
    /\ issued[12].cmd.dst_conn_id = env.b_conn_id
    /\ env.ibc0_conn_id = env.a_conn_id
    /\ env.ibc1_conn_id = env.b_conn_id

\* class and chain identifiers of every command, the handshake's included
Step(cmd) ==
    CASE cmd.class \in {"TxCreateClient", "TxUpdateClient"} ->
            <<cmd.class, cmd.dst_chain_id, cmd.src_chain_id>>
      [] cmd.class = "QueryClientState" -> <<cmd.class, cmd.chain_id>>
      [] OTHER -> <<cmd.class, cmd.src_chain_id, cmd.dst_chain_id>>

\* the 12 steps of a run
Steps ==
    << <<"TxCreateClient", IBC_0, IBC_1>>, <<"QueryClientState", IBC_0>>,
       <<"TxUpdateClient", IBC_0, IBC_1>>, <<"QueryClientState", IBC_0>>,
       <<"TxCreateClient", IBC_1, IBC_0>>, <<"QueryClientState", IBC_1>>,
       <<"TxUpdateClient", IBC_1, IBC_0>>, <<"QueryClientState", IBC_1>>,
       <<"TxConnInit", IBC_1, IBC_0>>, <<"TxConnTry", IBC_0, IBC_1>>,
       <<"TxConnAck", IBC_1, IBC_0>>, <<"TxConnConfirm", IBC_0, IBC_1>> >>

\* C15: whatever the relayer prints (success, failure status, undecodable
\* output, mismatching ids), the commands issued so far are the first
\* Len(issued) of the 12 steps; a command is only ever appended, the n-th one
\* by the n-th command statement of the script, which is then never executed
\* again: the script only moves forward, one statement at a time, and a run
\* that ended issues nothing more.
C15_NoRetryNoSkip ==
    /\ [](/\ Len(issued) <= 12
          /\ \A i \in 1..Len(issued) : Step(issued[i].cmd) = Steps[i]
          /\ outcome /= "running" => ~ENABLED Next)
    /\ [][/\ issued' /= issued
             => /\ issued' = Append(issued, issued'[Len(issued')])
                /\ proc = "none" /\ proc' = "running"
                /\ run[pc].op \in CmdOps
                /\ Len(issued') = CmdsUpTo(pc)
          /\ pc' /= pc => (pc' = pc + 1 /\ outcome = "running")
          /\ (Completed /\ outcome' /= "running") => pc' = pc]_vars

\* TRY was answered with the tag of another operation: the run ended there
\* after exactly the first 10 steps
C15_Witness ==
    /\ outcome = "KeyError"
    /\ Len(issued) = 10
    /\ issued[10].cmd.class = "TxConnTry"
    /\ run[pc].op = "conn_try"

\* the reply in out decodes and unwraps to a result for cmd
Unwrapped(cmd, out) == run_success(cmd, CompletedProcess(out, returncode)).exc = ""

\* C16: at most one relayer process is outstanding.  While a process runs it
\* is the process of the last command issued, the command of the statement at
\* pc, and nothing else happens until it returns.  A command is issued only
\* when no process runs and every command before it has returned and its reply
\* was decoded and unwrapped to a result; the second CREATE only after the
\* first lifecycle's last QUERY completed and the lifecycle returned, INIT only
\* after both lifecycles returned.
C16_OneAtATime ==
    /\ [](/\ proc \in {"none", "running"}
          /\ proc = "running"
             => /\ outcome = "running"
                /\ run[pc].op \in CmdOps
                /\ Len(issued) = CmdsUpTo(pc)
                /\ ~ENABLED (Spawn \/ Split \/ ReturnClientId \/ ReturnConnIds))
    /\ [][issued' /= issued
          => /\ proc = "none"
             /\ Len(issued') = Len(issued) + 1
             /\ Len(issued) = CmdsUpTo(pc - 1)
             /\ Len(issued) > 0 => Unwrapped(LastCmd, stdout)
             /\ Len(issued) = 4
                => /\ run[pc - 1].op = "return_client_id"
                   /\ issued[4].cmd = query_client_state(IBC_0, env.ibc0_client_id)
             /\ Len(issued) = 8
                => /\ run[pc - 1] = split
                   /\ run[pc - 2].op = "return_client_id"
                   /\ issued[4].cmd = query_client_state(IBC_0, env.ibc0_client_id)
                   /\ issued[8].cmd = query_client_state(IBC_1, env.ibc1_client_id)]_vars

\* the process of INIT is outstanding, after the 8 lifecycle commands returned
C16_Witness ==
    /\ proc = "running"
    /\ Len(issued) = 9
    /\ issued[9].cmd.class = "TxConnInit"
    /\ Unwrapped(issued[8].cmd, stdout)

\* C17: if every process spawned eventually returns, the run eventually ends,
\* finished or aborted by an exception, having issued at most 12 commands.
\* While a process is outstanding the run has not ended and its only step is
\* the return of that process: if a process never returns, no other command is
\* ever issued and the run never ends.
C17_Termination ==
    /\ ((proc = "running") ~> (proc = "none")) => <>(outcome /= "running")
    /\ [](outcome /= "running" => (Len(issued) <= 12 /\ ~ENABLED Next))
    /\ [](proc = "running" => outcome = "running")
    /\ [][proc = "running" => (proc' = "none" /\ issued' = issued)]_vars
    /\ <>[](proc = "running") => ([](outcome = "running") /\ <>[][issued' = issued]_vars)

\* a run in which all 12 processes returned has ended
C17_Witness ==
    /\ outcome = "done"
    /\ proc = "none"
    /\ Len(issued) = 12
    /\ pc = Len(run) + 1
    /\ ~ENABLED Next

\* C18: the exit status of the relayer process never influences the run.  When
\* a process returns, what the run does next (the exception that ends it, or
\* the variables bound, the diagnostics logged and the statement reached) is
\* what it would have done had the process printed the same output and exited
\* with any other status; the commands issued depend on the script position
\* and the variables only.  In particular a non-zero exit whose selected line
\* is a success reply of the protocol is a success, and a non-zero exit whose
\* selected line is no JSON document ends the run with the decode error.
C18_ExitStatusIgnored ==
    [][/\ Completed
          => /\ returncode' \in ExitCodes
             /\ \A code \in ExitCodes :
                    LET r == run_success(LastCmd, CompletedProcess(stdout', code))
                        h == handle(run[pc], r.value, env)
                    IN  IF r.exc /= ""
                        THEN /\ outcome' = r.exc /\ raised' = r.value
                             /\ pc' = pc /\ env' = env /\ errors' = errors
                        ELSE /\ outcome' = "running" /\ raised' = raised
                             /\ pc' = pc + 1 /\ env' = h.env /\ errors' = errors \o h.errors
             /\ (returncode' /= 0 /\ \E x \in res_values(LastCmd.class) :
                                        Carries(stdout', LastCmd, x))
                => (outcome' = "running" /\ pc' = pc + 1)
             /\ (returncode' /= 0 /\ ~IsJsonDocument(Selected(stdout')))
                => (outcome' = "JSONDecodeError" /\ pc' = pc)
       /\ issued' /= issued
          => LET cmd == descriptor(run[pc], env)
             IN  issued' = Append(issued, [cmd |-> cmd, argv |-> full_cmd(cmd, config)])]_vars

\* CONFIRM exited with status 1 after printing a success reply: the run finished
C18_Witness ==
    /\ outcome = "done"
    /\ returncode = 1
    /\ Len(issued) = 12
    /\ env.confirm_res = env.b_conn_id
    /\ Carries(stdout, LastCmd, env.confirm_res)

\* the client id of the lifecycle whose dst is chain: the id its CREATE
\* returned, with which its UPDATE was issued
Created(chain) ==
    LET i == CHOOSE i \in 1..8 : /\ issued[i].cmd.class = "TxUpdateClient"
                                 /\ issued[i].cmd.dst_chain_id = chain
    IN  issued[i].cmd.dst_client_id

\* C19: in each of the handshake commands INIT, TRY, ACK and CONFIRM that run
\* issues, the dst client is the client created by the lifecycle whose dst is
\* the command's dst chain and the src client the one created by the lifecycle
\* whose dst is the command's src chain, in the descriptor and in the tokens
\* (dst chain, src chain, dst client, src client); INIT and ACK have ibc-0 as
\* dst and ibc-1 as src, TRY and CONFIRM the reverse.
C19_ChainClientPaired ==
    \A i \in 9..Len(issued) :
        LET c == issued[i].cmd
            tk == Suffix(issued[i].argv, 6)
        IN  /\ c.dst_client_id = Created(c.dst_chain_id)
            /\ c.src_client_id = Created(c.src_chain_id)
            /\ {c.dst_chain_id, c.src_chain_id} = {IBC_0, IBC_1}
            /\ c.dst_chain_id = IF c.class \in {"TxConnInit", "TxConnAck"} THEN IBC_0 ELSE IBC_1
            /\ SubSeq(tk, 1, 2) = <<c.dst_chain_id, c.src_chain_id>>
            /\ SubSeq(tk, 3, 4) = <<Created(tk[1]), Created(tk[2])>>
            /\ Created(IBC_0) = env.ibc0_client_id
            /\ Created(IBC_1) = env.ibc1_client_id

\* the two lifecycles created different clients and all four handshake
\* commands were issued
C19_Witness ==
    /\ Len(issued) = 12
    /\ Created(IBC_0) /= Created(IBC_1)
    /\ Created(IBC_0) = issued[2].cmd.client_id
    /\ issued[9].cmd.dst_client_id = Created(IBC_0)
    /\ issued[10].cmd.dst_client_id = Created(IBC_1)
    /\ issued[12].cmd.src_client_id = Created(IBC_0)

\* the result of the reply object doc is absent or empty, or its first element
\* lacks the tag of cmd, or the tagged object lacks the field of cmd
Deficient(cmd, doc) ==
    \/ ~HasKey(doc, "result")
    \/ ~truthy(doc.map.result)
    \/ /\ doc.map.result.t = "list"
       /\ LET e == doc.map.result.items[1]
          IN  IF tag(cmd) = ""
              THEN ~HasKey(e, res_field(cmd.class))
              ELSE \/ ~HasKey(e, tag(cmd))
                   \/ ~HasKey(e.map[tag(cmd)], res_field(cmd.class))

\* the identifiers a command was built from
Identifiers(cmd) ==
    {cmd[f] : f \in DOMAIN cmd \cap {"client_id", "dst_client_id", "src_client_id",
                                     "src_conn_id", "dst_conn_id"}}

\* C20: when a process returns a reply with status "success" whose result is
\* absent or empty or lacks the tag or the field of the command, the step
\* raises: the run ends at that statement with that exception, binds no
\* variable and issues no further command.  Every identifier a command is
\* issued with is an identifier string that a reply carried.
C20_DeficientSuccessAborts ==
    /\ [][(/\ Completed
           /\ IsJsonDocument(Selected(stdout'))
           /\ HasKey(Selected(stdout')[1].doc, "status")
           /\ Selected(stdout')[1].doc.map.status = Str("success")
           /\ Deficient(LastCmd, Selected(stdout')[1].doc))
          => /\ outcome' \in {"KeyError", "IndexError", "TypeError"}
             /\ pc' = pc /\ env' = env /\ issued' = issued]_vars
    /\ [](/\ outcome \in {"KeyError", "IndexError", "TypeError"} => ~ENABLED Next
          /\ \A i \in 1..Len(issued) :
                /\ Identifiers(issued[i].cmd) \subseteq ClientIds \cup ConnIds
                /\ join_ok(issued[i].argv))

\* CREATE was answered with success and a CreateClient object without
\* client_id: the run ended there, before the first QUERY
C20_Witness ==
    /\ outcome = "KeyError"
    /\ Len(issued) = 1
    /\ env.client = None
    /\ IsJsonDocument(Selected(stdout))
    /\ Selected(stdout)[1].doc = Reply("success", List(<<Dict1("CreateClient", EmptyDict)>>))

\* C9: at each of the 12 steps, when the line selected from the output is not
\* one well-formed JSON document (empty output included), the run ends there
\* with a JSON decode error, which is not ExpectedSuccess, and nothing happens
\* afterwards: no further command is issued.
C9_DecodeFailureAborts ==
    /\ [](outcome = "JSONDecodeError"
            => /\ ~ENABLED Next
               /\ run[pc].op \in CmdOps
               /\ Len(issued) = CmdsUpTo(pc))
    /\ [][(Completed /\ ~IsJsonDocument(Selected(stdout')))
          => (outcome' = "JSONDecodeError" /\ pc' = pc /\ issued' = issued)]_vars

\* the CONFIRM step, the last of the 12, printed nothing
C9_Witness ==
    /\ outcome = "JSONDecodeError"
    /\ stdout = <<>>
    /\ Len(issued) = 12


====
